---------------------------- MODULE Spec2Model ----------------------------
(***************************************************************************)
(* Model of train.py of the DDI repository: the LightningModule `Model`    *)
(* (construction, setup, training_step, validation_step, forward) and the  *)
(* `__main__` program (callbacks, trainer, `new` and `resume`).            *)
(*                                                                         *)
(* train.py imports DDIDataSet, DDIDataLoader, RGCN and MLPPredictor from  *)
(* data.py / model.py; these are modelled from the design document and     *)
(* marked "modelled" below.  The behaviour                                 *)
(* of the library objects train.py configures (EarlyStopping,              *)
(* ModelCheckpoint, Trainer, train_test_split) is modelled for the         *)
(* arguments train.py passes to them.                                      *)
(*                                                                         *)
(* Numbers: a validation loss is a level 1..MaxLoss (only its order is     *)
(* used); the learning rate is counted in units of 1e-3.                   *)
(***************************************************************************)
EXTENDS Integers, Sequences, FiniteSets

\* ------------------------------------------------------------------ bounds
MaxLoss == 3
MaxPatience == 3
MaxEpochs == 5
NumRawSubtypes == 3
MaxBatch == 2
MaxCount == 4

\* ------------------------------------------------- constants of train.py
DEFAULT_HIDDEN_SIZE == 512
DEFAULT_LEARNING_RATE == 1
DEFAULT_MIN_SAMPLE_SIZE == 10
DEFAULT_PATIENCE == 3
SAVE_TOP_K == 3
MIN_DELTA == 0
\* DEFAULT_BATCH_SIZE = None: an Optional[int] is <<>> (None) or <<n>>
DEFAULT_BATCH_SIZE == <<>>
DEFAULT_PKL_PATH == "../dataset.pkl"

VARIABLES
    artifact,       \* the persisted dataset: [path, counts], counts[i] = edges of raw subtype i
    args,           \* argparse namespace of the running process
    phase,          \* position of the program
    model,          \* the Model instance of the running process
    wait_count,     \* EarlyStopping.wait_count
    best_score,     \* EarlyStopping.best_score
    should_stop,    \* trainer.should_stop
    best_k_models,  \* ModelCheckpoint.best_k_models: {[epoch, score]}
    disk,           \* checkpoint files present on disk
    current_epoch,  \* trainer.current_epoch: epochs completed
    history,        \* val_loss logged by each validation round of the run
    loss_levels,    \* how many distinct loss levels the data of this run yields
    resumed_from,   \* <<>> or <<ckpt>>: the checkpoint a resume process was given
    error,          \* the exception that ended the process, "" if none
    batch,          \* the batch the dataloader yielded last
    step_out,       \* what the last training / validation step computed and logged
    world,          \* the ranks of the data-parallel replicas of the run
    split,          \* per rank: the (train_eid, test_eid) that setup assigned
    loaders         \* per rank: the edge ids its dataloaders were built over

progVars == <<args, phase, model, wait_count, best_score, should_stop,
              best_k_models, disk, current_epoch, history, loss_levels,
              resumed_from, error>>
stepVars == <<batch, step_out>>
splitVars == <<world, split, loaders>>

vars == <<artifact, progVars, stepVars, splitVars>>


\* ------------------------------------------------------------- helpers
Min(a, b) == IF a <= b THEN a ELSE b

RECURSIVE SumSeq(_)
SumSeq(s) == IF s = <<>> THEN 0 ELSE Head(s) + SumSeq(Tail(s))

\* ------------------------------------------- data.py (DDIDataSet), modelled
\* The label the artifact gives its i-th raw DDI subtype (an integer; the
\* labels of a real artifact are not consecutive and pass 9 and 99).
RawLabel(i) == 50 * (i - 1) + 1

\* The raw subtypes i..Len(counts) kept by the filter, in artifact order:
\* a subtype is retained iff its edge count is >= min_sample_size.
RECURSIVE Retained(_, _, _)
Retained(counts, i, min_sample_size) ==
    IF i > Len(counts) THEN <<>>
    ELSE (IF counts[i] >= min_sample_size THEN <<i>> ELSE <<>>)
         \o Retained(counts, i + 1, min_sample_size)

\* DDIDataSet(pkl_path, min_sample_size): fails (ok = FALSE) when the artifact
\* is missing or no subtype is retained.  Edges of the retained subtypes are
\* numbered 0..num_ddi-1 subtype after subtype; edge_counts[k] is the number
\* of edges of the k-th retained subtype, whose edge type (dgl.ETYPE) is k-1.
DDIDataSet(pkl_path, min_sample_size) ==
    LET found == pkl_path = artifact.path
        kept  == IF found THEN Retained(artifact.counts, 1, min_sample_size)
                 ELSE <<>>
        cnts  == [k \in 1..Len(kept) |-> artifact.counts[kept[k]]]
    IN  [ok            |-> found /\ kept # <<>>,
         ddi_types     |-> [k \in 1..Len(kept) |-> RawLabel(kept[k])],
         num_ddi_types |-> Len(kept),
         edge_counts   |-> cnts,
         num_ddi       |-> SumSeq(cnts)]

\* dataset.ddi_graph.edata[dgl.ETYPE][e] for edge id e in 0..num_ddi-1
RECURSIVE EdgeTypeFrom(_, _, _)
EdgeTypeFrom(cnts, k, e) ==
    IF k >= Len(cnts) \/ e < cnts[k] THEN k - 1
    ELSE EdgeTypeFrom(cnts, k + 1, e - cnts[k])

EdgeType(ds, e) == EdgeTypeFrom(ds.edge_counts, 1, e)

\* -------------------------------------------------------- Model.__init__
\* The decimal digits of a natural number, most significant first.
RECURSIVE Digits(_)
Digits(n) == IF n < 10 THEN <<n>> ELSE Digits(n \div 10) \o <<n % 10>>

\* f'{y:02}': at least two digits, padded with zeros on the left.
Format02(y) == IF y < 10 THEN <<0, y>> ELSE Digits(y)

\* f'DDI_{y:02}': a relation name is the prefix followed by the digits.
DdiRelName(y) == <<"DDI_">> \o Format02(y)

\* rel_names = [f'DDI_{y:02}' for y in ddi_types] + ['DPI', 'PDI', 'PPI']
RelNames(ddi_types) ==
    [k \in 1..Len(ddi_types) |-> DdiRelName(ddi_types[k])]
    \o << <<"DPI">>, <<"PDI">>, <<"PPI">> >>

\* Mutant: the class for "no interaction" is forgotten
OutClasses_NoExtra(ds) == ds.num_ddi_types

\* out_feats / out_classes = dataset.num_ddi_types + 1
OutClasses(ds) == ds.num_ddi_types + 1

\* Mutant: min_sample_size is not saved with the hyperparameters
SaveHyperparameters_Partial(pkl_path, hidden_size, learning_rate, min_sample_size, batch_size) ==
    [pkl_path        |-> pkl_path,
     hidden_size     |-> hidden_size,
     learning_rate   |-> learning_rate,
     batch_size      |-> batch_size]

\* self.save_hyperparameters(): the arguments of __init__, by name
SaveHyperparameters(pkl_path, hidden_size, learning_rate, min_sample_size, batch_size) ==
    [pkl_path        |-> pkl_path,
     hidden_size     |-> hidden_size,
     learning_rate   |-> learning_rate,
     min_sample_size |-> min_sample_size,
     batch_size      |-> batch_size]

\* model.py, modelled: RGCN and MLPPredictor keep the sizes they are built with
RGCN(hidden_size, out_feats, rel_names) ==
    [hidden_size |-> hidden_size, out_feats |-> out_feats,
     rel_names |-> rel_names]

MLPPredictor(in_features, out_classes) ==
    [in_features |-> in_features, out_classes |-> out_classes]

NoDataset ==
    [ok |-> FALSE, ddi_types |-> <<>>, num_ddi_types |-> 0,
     edge_counts |-> <<>>, num_ddi |-> 0]

\* No Model instance: before construction, or construction raised.
NoModel ==
    [ok |-> FALSE, hparams |-> <<>>, learning_rate |-> 0, batch_size |-> <<>>,
     dataset |-> NoDataset, sage |-> <<>>, predictor |-> <<>>]

\* Model(pkl_path, hidden_size, learning_rate, min_sample_size, batch_size)
ModelInit(pkl_path, hidden_size, learning_rate, min_sample_size, batch_size) ==
    LET ds == DDIDataSet(pkl_path, min_sample_size) IN
    IF ~ds.ok THEN NoModel
    ELSE [ok            |-> TRUE,
          hparams       |-> SaveHyperparameters(pkl_path, hidden_size,
                                learning_rate, min_sample_size, batch_size),
          learning_rate |-> learning_rate,
          batch_size    |-> batch_size,
          dataset       |-> ds,
          sage          |-> RGCN(hidden_size, OutClasses(ds),
                                 RelNames(ds.ddi_types)),
          predictor     |-> MLPPredictor(hidden_size, OutClasses(ds))]


\* ------------------------------------------------------ __main__: callbacks
\* torch.inf, the initial EarlyStopping.best_score in mode 'min'
Inf == MaxLoss + 1

\* EarlyStopping(monitor='val_loss', mode='min', min_delta=0.00): the round
\* improves iff current - (-min_delta) < best_score
Improved(current, best) == current + MIN_DELTA < best

\* Mutant: the run is stopped one non-improving round late
EarlyStoppingCheck_OffByOne(current, best, wait, patience) ==
    IF Improved(current, best)
    THEN [best_score |-> current, wait_count |-> 0, should_stop |-> FALSE]
    ELSE [best_score |-> best, wait_count |-> wait + 1,
          should_stop |-> wait + 1 > patience]

\* EarlyStopping(patience=args.early_stop_patience), one check: the new
\* (best_score, wait_count, should_stop)
EarlyStoppingCheck(current, best, wait, patience) ==
    IF Improved(current, best)
    THEN [best_score |-> current, wait_count |-> 0, should_stop |-> FALSE]
    ELSE [best_score |-> best, wait_count |-> wait + 1,
          should_stop |-> wait + 1 >= patience]

\* ModelCheckpoint(save_top_k=3, monitor='val_loss', mode='min'): the entry of
\* best_k_models with the worst (highest) score, the first saved among equals
KthBestModel(bk) ==
    CHOOSE c \in bk :
        \A d \in bk : d.score < c.score
                       \/ (d.score = c.score /\ d.epoch >= c.epoch)

\* Mutant: every round's checkpoint is saved, whatever its loss
CheckMonitorTopK_Always(bk, current) == TRUE

\* ModelCheckpoint.check_monitor_top_k: save iff fewer than k are kept or the
\* current score is lower than the worst kept one
CheckMonitorTopK(bk, current) ==
    \/ Cardinality(bk) < SAVE_TOP_K
    \/ current < KthBestModel(bk).score

\* The entries that remain in best_k_models when `current` is saved
AfterEviction(bk) ==
    IF Cardinality(bk) = SAVE_TOP_K THEN bk \ {KthBestModel(bk)} ELSE bk

\* The shapes of the saved parameters (state_dict) of a model
Arch(m) == [rel_names   |-> m.sage.rel_names,
            hidden_size |-> m.sage.hidden_size,
            out_classes |-> m.predictor.out_classes]

\* The checkpoint file the trainer writes for a ModelCheckpoint save: the
\* model's parameters and hyperparameters and the callbacks' states
Checkpoint(m, epoch, score, es, patience) ==
    [epoch   |-> epoch,
     score   |-> score,
     hparams |-> m.hparams,
     arch    |-> Arch(m),
     es      |-> [wait_count |-> es.wait_count, best_score |-> es.best_score,
                  patience |-> patience]]

\* Model.load_from_checkpoint(path): Model(**checkpoint['hyper_parameters']),
\* an argument the checkpoint lacks taking the default of __init__
Kwarg(h, name, default) == IF name \in DOMAIN h THEN h[name] ELSE default

LoadFromCheckpoint(ckpt) ==
    ModelInit(Kwarg(ckpt.hparams, "pkl_path", DEFAULT_PKL_PATH),
              Kwarg(ckpt.hparams, "hidden_size", DEFAULT_HIDDEN_SIZE),
              Kwarg(ckpt.hparams, "learning_rate", DEFAULT_LEARNING_RATE),
              Kwarg(ckpt.hparams, "min_sample_size", DEFAULT_MIN_SAMPLE_SIZE),
              Kwarg(ckpt.hparams, "batch_size", DEFAULT_BATCH_SIZE))

\* The keyword arguments Trainer.fit accepts besides the model
TrainerFitKeywords ==
    {"train_dataloaders", "val_dataloaders", "datamodule", "ckpt_path"}

\* The keyword `resume` passes the checkpoint path to trainer.fit under
ResumeFitKeyword == "checkpoint_path"


\* ------------------------------------------------------- __main__: program
\* parser.parse_args() for `new`
NewArgs(pkl_path, hidden_size, learning_rate, batch_size, min_sample_size, patience) ==
    [subcommand          |-> "new",
     pkl_path            |-> pkl_path,
     hidden_size         |-> hidden_size,
     learning_rate       |-> learning_rate,
     batch_size          |-> batch_size,
     min_sample_size     |-> min_sample_size,
     early_stop_patience |-> patience]

\* parser.parse_args() for `resume`: the checkpoint path and the patience
ResumeArgs(patience) ==
    [subcommand          |-> "resume",
     pkl_path            |-> "",
     hidden_size         |-> 0,
     learning_rate       |-> 0,
     batch_size          |-> <<>>,
     min_sample_size     |-> 0,
     early_stop_patience |-> patience]

\* The callbacks and the trainer as __main__ constructs them
FreshCallbacks ==
    /\ wait_count' = 0
    /\ best_score' = Inf
    /\ should_stop' = FALSE
    /\ best_k_models' = {}
    /\ current_epoch' = 0

\* case 'new': Model(...) and trainer.fit(model).  A dataset that cannot be
\* loaded, or retains no subtype, ends the process.
New ==
    /\ phase = "start"
    /\ args.subcommand = "new"
    /\ LET m == ModelInit(args.pkl_path, args.hidden_size, args.learning_rate,
                          args.min_sample_size, args.batch_size)
       IN  /\ model' = m
           /\ phase' = IF m.ok THEN "train" ELSE "crashed"
           /\ error' = IF m.ok THEN "" ELSE "DatasetError"
    /\ UNCHANGED <<artifact, args, wait_count, best_score, should_stop,
                   best_k_models, disk, current_epoch, history, loss_levels,
                   resumed_from, stepVars, splitVars>>

\* The training batches of one epoch (training_step on each, optimizer steps)
TrainingEpoch ==
    /\ phase = "train"
    /\ phase' = "validate"
    /\ UNCHANGED <<artifact, args, model, wait_count, best_score, should_stop,
                   best_k_models, disk, current_epoch, history, loss_levels,
                   resumed_from, error, stepVars, splitVars>>

\* The validation batches of the epoch (validation_step on each): val_loss
\* is logged for the round
ValidationEpoch ==
    /\ phase = "validate"
    /\ \E loss \in 1..loss_levels : history' = Append(history, loss)
    /\ phase' = "epoch_end"
    /\ UNCHANGED <<artifact, args, model, wait_count, best_score, should_stop,
                   best_k_models, disk, current_epoch, loss_levels,
                   resumed_from, error, stepVars, splitVars>>

\* End of the epoch: the callbacks run on the logged val_loss, EarlyStopping
\* first and ModelCheckpoint (moved last by the trainer) second, and the epoch
\* is counted as completed.
OnAdvanceEnd ==
    /\ phase = "epoch_end"
    /\ LET current == history[Len(history)]
           es == EarlyStoppingCheck(current, best_score, wait_count,
                                    args.early_stop_patience)
           save == CheckMonitorTopK(best_k_models, current)
           evicted == IF save /\ Cardinality(best_k_models) = SAVE_TOP_K
                      THEN {KthBestModel(best_k_models).epoch} ELSE {}
       IN  /\ best_score' = es.best_score
           /\ wait_count' = es.wait_count
           /\ should_stop' = (should_stop \/ es.should_stop)
           /\ best_k_models' =
                 IF save
                 THEN AfterEviction(best_k_models)
                      \cup {[epoch |-> current_epoch, score |-> current]}
                 ELSE best_k_models
           /\ disk' =
                 IF save
                 THEN {c \in disk : c.epoch \notin evicted}
                      \cup {Checkpoint(model, current_epoch, current, es,
                                       args.early_stop_patience)}
                 ELSE disk
    /\ current_epoch' = current_epoch + 1
    /\ phase' = "loop"
    /\ UNCHANGED <<artifact, args, model, history, loss_levels, resumed_from,
                   error, stepVars, splitVars>>

\* Mutant: the trainer is given an epoch cap (max_epochs=2)
FitLoopAdvance_Capped ==
    /\ phase = "loop"
    /\ IF should_stop \/ current_epoch >= 2
       THEN phase' = "terminated"
       ELSE /\ current_epoch < MaxEpochs
            /\ phase' = "train"
    /\ UNCHANGED <<artifact, args, model, wait_count, best_score, should_stop,
                   best_k_models, disk, current_epoch, history, loss_levels,
                   resumed_from, error, stepVars, splitVars>>

\* Trainer(max_epochs=-1): the fit loop ends iff trainer.should_stop is set;
\* otherwise the next epoch starts.
FitLoopAdvance ==
    /\ phase = "loop"
    /\ IF should_stop
       THEN phase' = "terminated"
       ELSE /\ current_epoch < MaxEpochs
            /\ phase' = "train"
    /\ UNCHANGED <<artifact, args, model, wait_count, best_score, should_stop,
                   best_k_models, disk, current_epoch, history, loss_levels,
                   resumed_from, error, stepVars, splitVars>>

\* The process is interrupted from outside: what it held in memory is gone,
\* the checkpoint files stay.
Interrupt ==
    /\ phase \in {"train", "validate", "epoch_end", "loop"}
    /\ phase' = "interrupted"
    /\ model' = NoModel
    /\ FreshCallbacks
    /\ UNCHANGED <<artifact, args, disk, history, loss_levels, resumed_from,
                   error, stepVars, splitVars>>

\* case 'resume' in a new process: fresh callbacks and trainer,
\* Model.load_from_checkpoint(args.checkpoint_path), then
\* trainer.fit(model, checkpoint_path=args.checkpoint_path).
Resume ==
    /\ phase = "interrupted"
    /\ \E ckpt \in disk, patience \in 1..MaxPatience :
         LET m == LoadFromCheckpoint(ckpt)
             loaded == m.ok /\ Arch(m) = ckpt.arch
             accepted == ResumeFitKeyword \in TrainerFitKeywords
         IN  /\ args' = ResumeArgs(patience)
             /\ resumed_from' = <<ckpt>>
             /\ model' = IF loaded THEN m ELSE NoModel
             /\ best_k_models' = {}
             /\ should_stop' = FALSE
             /\ IF loaded /\ accepted
                THEN \* the trainer restores the loops' and callbacks' states
                     /\ wait_count' = ckpt.es.wait_count
                     /\ best_score' = ckpt.es.best_score
                     /\ current_epoch' = ckpt.epoch + 1
                     /\ phase' = "train"
                     /\ error' = ""
                ELSE /\ wait_count' = 0
                     /\ best_score' = Inf
                     /\ current_epoch' = 0
                     /\ phase' = "crashed"
                     /\ error' = IF loaded THEN "TypeError" ELSE "LoadError"
    /\ UNCHANGED <<artifact, disk, history, loss_levels, stepVars, splitVars>>

\* case 'resume' with a path that names no checkpoint file
ResumeMissing ==
    /\ phase = "interrupted"
    /\ \E patience \in 1..MaxPatience : args' = ResumeArgs(patience)
    /\ phase' = "crashed"
    /\ error' = "FileNotFoundError"
    /\ UNCHANGED <<artifact, model, wait_count, best_score, should_stop,
                   best_k_models, disk, current_epoch, history, loss_levels,
                   resumed_from, stepVars, splitVars>>

Next ==
    \/ New
    \/ TrainingEpoch
    \/ ValidationEpoch
    \/ OnAdvanceEnd
    \/ FitLoopAdvance
    \/ Interrupt
    \/ Resume
    \/ ResumeMissing

\* ------------------------------------------------------------ initial states
Paths == {DEFAULT_PKL_PATH, "other.pkl"}
CountLevels == {5, 20, 50}
HiddenSizes == {DEFAULT_HIDDEN_SIZE, 64}
MinSampleSizes == {DEFAULT_MIN_SAMPLE_SIZE, 30}
BatchSizes == {DEFAULT_BATCH_SIZE, <<2>>}

\* The artifact of the scenario of the design document: {50, 5, 20} edges
ScenarioArtifact == [path |-> DEFAULT_PKL_PATH, counts |-> <<50, 5, 20>>]

IdleStep == /\ batch = <<>>
            /\ step_out = <<>>
IdleSplit == /\ world = {}
             /\ split = <<>>
             /\ loaders = <<>>

InitProgram ==
    /\ phase = "start"
    /\ model = NoModel
    /\ wait_count = 0
    /\ best_score = Inf
    /\ should_stop = FALSE
    /\ best_k_models = {}
    /\ disk = {}
    /\ current_epoch = 0
    /\ history = <<>>
    /\ resumed_from = <<>>
    /\ error = ""

\* Training runs of the default model on the scenario artifact, over every
\* patience and every sequence of validation losses
InitFit ==
    /\ artifact = ScenarioArtifact
    /\ \E patience \in 1..MaxPatience :
         args = NewArgs(DEFAULT_PKL_PATH, DEFAULT_HIDDEN_SIZE,
                        DEFAULT_LEARNING_RATE, DEFAULT_BATCH_SIZE,
                        DEFAULT_MIN_SAMPLE_SIZE, patience)
    /\ loss_levels = MaxLoss
    /\ InitProgram
    /\ IdleStep
    /\ IdleSplit

SpecFit == InitFit /\ [][Next]_vars

\* Runs over every artifact and every hyperparameter set, with one loss level
\* and patience 1
InitBuild ==
    /\ artifact \in [path : Paths,
                      counts : [1..NumRawSubtypes -> CountLevels]]
    /\ \E p \in Paths, h \in HiddenSizes, b \in BatchSizes, m \in MinSampleSizes :
         args = NewArgs(p, h, DEFAULT_LEARNING_RATE, b, m, 1)
    /\ loss_levels = 1
    /\ InitProgram
    /\ IdleStep
    /\ IdleSplit

SpecBuild == InitBuild /\ [][Next]_vars


\* ------------------------------------------- claims on the training loop
Live == {"train", "validate", "epoch_end", "loop", "terminated"}

\* The lowest of the first k validation losses (torch.inf when k = 0)
BestSeen(h, k) ==
    IF k = 0 THEN Inf
    ELSE CHOOSE b \in {h[i] : i \in 1..k} : \A i \in 1..k : b <= h[i]

\* Round k failed to improve on the best seen before it by more than min_delta
NonImproving(h, k) == ~(h[k] < BestSeen(h, k - 1) - MIN_DELTA)

\* The number of consecutive non-improving rounds that end h
Trailing(h) ==
    Cardinality({j \in 1..Len(h) : \A k \in j..Len(h) : NonImproving(h, k)})

\* The rounds the callbacks of the running process have seen
Processed == SubSeq(history, 1, current_epoch)

\* C2: early stopping stops the run exactly when validation loss has failed to
\* improve on the best value seen so far by more than min_delta for `patience`
\* consecutive rounds, and not earlier; with patience 3 the losses
\* [1, 1, 1, 1] stop the run after the 4th round.
C2_EarlyStopExact ==
    phase \in Live =>
        /\ should_stop <=> Trailing(Processed) >= args.early_stop_patience
        /\ best_score = BestSeen(history, current_epoch)
        /\ wait_count = Trailing(Processed)
        /\ phase = "terminated" =>
              /\ Trailing(history) = args.early_stop_patience
              /\ \A k \in 0..(Len(history) - 1) :
                    Trailing(SubSeq(history, 1, k)) < args.early_stop_patience
        /\ (args.early_stop_patience = 3 /\ Len(history) <= 4
            /\ \A k \in 1..Len(history) : history[k] = 1)
           => /\ should_stop <=> current_epoch = 4
              /\ phase = "terminated" => Len(history) = 4

C2_Witness ==
    /\ phase = "terminated"
    /\ args.early_stop_patience = 3
    /\ history = <<1, 1, 1, 1>>

\* The checkpoint files are the min(n, 3) lowest-loss rounds of the first n
TopKOf(n) ==
    /\ Cardinality(disk) = Min(n, SAVE_TOP_K)
    /\ \A c \in disk :
          /\ c.epoch < n
          /\ c.score = history[c.epoch + 1]
          /\ \A e \in 0..(n - 1) :
                (\A d \in disk : d.epoch # e) => history[e + 1] >= c.score

\* C3: at most 3 checkpoints are retained, and they are the checkpoints with
\* the lowest validation loss among all rounds so far; a checkpoint is evicted
\* only for a new one with a lower loss, and it is the worst retained one.
C3_TopThreeRetained ==
    /\ [](/\ Cardinality(disk) <= SAVE_TOP_K
          /\ phase \in Live => TopKOf(current_epoch)
          /\ phase \notin Live =>
                \E n \in {Len(history) - 1, Len(history)} : n >= 0 /\ TopKOf(n))
    /\ [][\A c \in disk \ disk' :
            /\ \A d \in disk : d.score <= c.score
            /\ \E n \in disk' \ disk : n.score < c.score]_vars

C3_Witness ==
    /\ Cardinality(disk) = SAVE_TOP_K
    /\ \E c \in disk : c.epoch >= SAVE_TOP_K
    /\ \E e \in 0..(current_epoch - 1) :
          /\ \A d \in disk : d.epoch # e
          /\ e > 0

\* C4: there is no epoch cap: the run terminates only through an early-stop
\* decision, taken at the epoch boundary; while the decision is not taken the
\* loop goes on to the next epoch, once it is taken the loop ends; a run whose
\* loss improved in every round has not terminated.
C4_TerminateOnlyByEarlyStop ==
    /\ [][/\ (phase' = "terminated" /\ phase # "terminated") =>
               (phase = "loop" /\ should_stop
                /\ wait_count >= args.early_stop_patience)
          /\ (phase = "loop" /\ ~should_stop) =>
               phase' \in {"loop", "train", "interrupted"}
          /\ (phase = "loop" /\ wait_count >= args.early_stop_patience) =>
               phase' \in {"loop", "terminated", "interrupted"}
          /\ (should_stop' /\ ~should_stop) => phase = "epoch_end"]_vars
    /\ []((phase \in Live
           /\ \A k \in 1..Len(history) : ~NonImproving(history, k))
          => phase # "terminated")
    /\ []((phase = "loop" /\ ~should_stop /\ current_epoch < MaxEpochs)
          => ENABLED FitLoopAdvance)

C4_Witness ==
    /\ phase = "terminated"
    /\ Len(history) = 5
    /\ SubSeq(history, 1, 3) = <<3, 2, 1>>

\* C5: after `resume` the early-stopping state (best validation loss, count of
\* non-improving rounds) is the one the checkpoint was written with, and the
\* run goes on.
C5_ResumeContinuesEarlyStopping ==
    resumed_from # <<>> =>
        /\ phase # "crashed"
        /\ wait_count = resumed_from[1].es.wait_count
        /\ best_score = resumed_from[1].es.best_score

\* ------------------------------------------- claims on the hyperparameters
HparamNames ==
    {"pkl_path", "hidden_size", "learning_rate", "min_sample_size",
     "batch_size"}

\* C9: the hyperparameters stored with a checkpoint are exactly the five
\* constructor arguments of the model that wrote it, and the model rebuilt
\* from the checkpoint on resume is constructed with the same five values and
\* has the same subtype list, relation list, hidden size and class count.
C9_HparamsRoundTrip ==
    /\ args.subcommand = "new" =>
          \A c \in disk :
              /\ DOMAIN c.hparams = HparamNames
              /\ \A n \in HparamNames : c.hparams[n] = args[n]
    /\ resumed_from # <<>> =>
          LET ckpt == resumed_from[1] IN
          /\ model.ok
          /\ DOMAIN model.hparams = HparamNames
          /\ \A n \in HparamNames : model.hparams[n] = ckpt.hparams[n]
          /\ model.sage.rel_names = ckpt.arch.rel_names
          /\ model.sage.hidden_size = ckpt.arch.hidden_size
          /\ model.predictor.out_classes = ckpt.arch.out_classes
          /\ model.dataset.ddi_types =
               DDIDataSet(ckpt.hparams.pkl_path,
                          ckpt.hparams.min_sample_size).ddi_types

C9_Witness ==
    /\ resumed_from # <<>>
    /\ model.ok
    /\ model.hparams.min_sample_size = 30
    /\ model.hparams.hidden_size = 64
    /\ model.hparams.batch_size = <<2>>
    /\ model.predictor.out_classes = 3


\* ================================================================ the steps
\* ------------------------------------- data.py (DDIDataLoader), modelled
\* Drug nodes of the full graph are 0..NumDrugs-1.
NumDrugs == MaxBatch + 1

\* A batch is (graph, pos_pair_graph, neg_pair_graph).  The message-passing
\* graph is the full graph.  The two prediction graphs share one node set:
\* either all Drug nodes with no dgl.NID mapping (nid = <<>>), or nn sampled
\* nodes whose k-th (k = 0..nn-1) is the Drug node nid[k+1] of the full graph.
\* Positive edge j joins local nodes j-1 and j (mod nn) and carries its
\* subtype index as dgl.ETYPE; negative edge j keeps the source of positive
\* edge j and replaces its destination.  There are as many negative as
\* positive edges.
SampledBatch(nid, nn, etypes) ==
    [graph |-> [num_drugs |-> NumDrugs],
     pos   |-> [nid |-> nid, num_nodes |-> nn,
                edges |-> [j \in 1..Len(etypes) |->
                             [src |-> (j - 1) % nn, dst |-> j % nn,
                              etype |-> etypes[j]]]],
     neg   |-> [nid |-> nid, num_nodes |-> nn,
                edges |-> [j \in 1..Len(etypes) |->
                             [src |-> (j - 1) % nn,
                              dst |-> (j + 1) % nn]]]]

\* The node-ID mappings the sampler may attach: nn consecutive Drug nodes
\* starting at r, or none with the whole node set
NodeSets ==
    {[nid |-> <<>>, nn |-> NumDrugs]}
    \cup {[nid |-> [k \in 1..nn |-> (r + k - 1) % NumDrugs], nn |-> nn] :
            nn \in 2..NumDrugs, r \in 0..(NumDrugs - 1)}

\* --------------------------------------------- model.py, modelled: networks
\* The encoder's embedding of Drug node i: a vector that stands for node i
Embedding(i) == [node |-> i]

\* self.sage(hg, hg.ndata['feature'])['Drug']: one embedding per Drug node
SageDrug(hg) == [i \in 1..hg.num_drugs |-> Embedding(i - 1)]

\* A stand-in for the learned score of class c for an edge whose endpoints
\* have embeddings hs and hd
Logit(hs, hd, c) == (hs.node + 2 * hd.node + c * (hs.node + 1)) % 3

\* self.predictor(g, emb): one row per edge of g, a vector over the
\* predictor's out_classes classes computed from the embeddings of the edge's
\* endpoints; emb[k+1] is the embedding given for node k of g.  An endpoint
\* without an embedding is an indexing error.
PredictorScore(predictor, g, emb) ==
    IF \E j \in DOMAIN g.edges :
           g.edges[j].src >= Len(emb) \/ g.edges[j].dst >= Len(emb)
    THEN [ok |-> FALSE, rows |-> <<>>]
    ELSE [ok |-> TRUE,
          rows |-> [j \in DOMAIN g.edges |->
                      LET hs == emb[g.edges[j].src + 1]
                          hd == emb[g.edges[j].dst + 1]
                      IN  [src |-> hs, dst |-> hd,
                           logits |-> [c \in 0..(predictor.out_classes - 1)
                                         |-> Logit(hs, hd, c)]]]]

\* ------------------------------------------------------------ Model.forward
\* Mutant: the node-ID mapping is ignored
DrugEmbeddingsFor_IgnoreNid(h, g) == h

\* The Drug embeddings handed to the predictor for prediction graph g:
\* h['Drug'][g.ndata[dgl.NID]] if g carries dgl.NID, else h['Drug']
DrugEmbeddingsFor(h, g) ==
    IF g.nid # <<>> THEN [k \in 1..Len(g.nid) |-> h[g.nid[k] + 1]] ELSE h

\* forward(hg, *ddi_graphs): the encoder output h is computed once, then one
\* score tensor per prediction graph, in the order given
Forward(m, hg, ddi_graphs) ==
    LET h == SageDrug(hg) IN
    [i \in 1..Len(ddi_graphs) |->
        PredictorScore(m.predictor, ddi_graphs[i],
                       DrugEmbeddingsFor(h, ddi_graphs[i]))]

\* ------------------------------------- training_step and validation_step
\* Mutant: the edge types are used as labels without the shift by one
RealLabel_NoShift(pos_graph, neg_score) ==
    [j \in 1..Len(pos_graph.edges) |-> pos_graph.edges[j].etype]
    \o [j \in 1..Len(neg_score) |-> 0]

\* torch.cat([pos_pair_graph.edata[dgl.ETYPE] + 1, torch.zeros(neg rows)])
RealLabel(pos_graph, neg_score) ==
    [j \in 1..Len(pos_graph.edges) |-> pos_graph.edges[j].etype + 1]
    \o [j \in 1..Len(neg_score) |-> 0]

\* nn.CrossEntropyLoss is defined when there is one target per row and every
\* target is a class of the row
LossDefined(prediction, real_label) ==
    /\ Len(prediction) = Len(real_label)
    /\ \A i \in 1..Len(prediction) : real_label[i] \in DOMAIN prediction[i].logits

\* torch.argmax(row): the first class with the highest score
Argmax(logits) ==
    CHOOSE c \in DOMAIN logits :
        \A d \in DOMAIN logits :
            logits[d] < logits[c] \/ (logits[d] = logits[c] /\ d >= c)

\* The part the two steps share: forward, prediction, real_label, loss.  An
\* exception (error # "") ends the step.
StepCommon(kind, m, b) ==
    LET out == Forward(m, b.graph, <<b.pos, b.neg>>)
        ok  == out[1].ok /\ out[2].ok
        pos_score == out[1].rows
        neg_score == out[2].rows
        prediction == pos_score \o neg_score
        real_label == RealLabel(b.pos, neg_score)
    IN  [kind       |-> kind,
         pos_score  |-> pos_score,
         neg_score  |-> neg_score,
         prediction |-> IF ok THEN prediction ELSE <<>>,
         real_label |-> IF ok THEN real_label ELSE <<>>,
         pred_label |-> <<>>,
         error      |-> IF ~ok THEN "IndexError"
                        ELSE IF ~LossDefined(prediction, real_label)
                             THEN "LossError" ELSE ""]

\* training_step(batch, batch_idx): logs train_loss and returns the loss
TrainingStep ==
    /\ phase = "train"
    /\ batch # <<>>
    /\ step_out = <<>>
    /\ step_out' = <<StepCommon("train", model, batch)>>
    /\ UNCHANGED <<artifact, progVars, batch, splitVars>>

\* validation_step(batch, batch_idx): the same, plus the predicted labels;
\* the logged val_f1, val_accuracy, val_precision and val_recall are
\* functions of (real_label, pred_label)
ValidationStep ==
    /\ phase = "train"
    /\ batch # <<>>
    /\ step_out = <<>>
    /\ LET r == StepCommon("val", model, batch) IN
       step_out' =
         <<[r EXCEPT !.pred_label =
               IF r.error = ""
               THEN [i \in 1..Len(r.prediction) |-> Argmax(r.prediction[i].logits)]
               ELSE <<>>]>>
    /\ UNCHANGED <<artifact, progVars, batch, splitVars>>

\* The dataloader yields a batch
NextBatch ==
    /\ phase = "train"
    /\ batch = <<>>
    /\ \E ns \in NodeSets, n \in 1..MaxBatch :
         \E etypes \in [1..n -> 0..(model.dataset.num_ddi_types - 1)] :
            batch' = SampledBatch(ns.nid, ns.nn, etypes)
    /\ step_out' = <<>>
    /\ UNCHANGED <<artifact, progVars, splitVars>>

\* The step's outputs are consumed (optimizer step, logging) and the batch
\* is released
StepDone ==
    /\ phase = "train"
    /\ step_out # <<>>
    /\ batch' = <<>>
    /\ step_out' = <<>>
    /\ UNCHANGED <<artifact, progVars, splitVars>>

NextStep ==
    \/ New
    \/ NextBatch
    \/ StepDone
    \/ TrainingStep
    \/ ValidationStep

\* Every artifact with the default path, the default model over both
\* minimum sample sizes
InitStep ==
    /\ artifact \in [path : {DEFAULT_PKL_PATH},
                      counts : [1..NumRawSubtypes -> CountLevels]]
    /\ \E m \in MinSampleSizes :
         args = NewArgs(DEFAULT_PKL_PATH, DEFAULT_HIDDEN_SIZE,
                        DEFAULT_LEARNING_RATE, DEFAULT_BATCH_SIZE, m,
                        DEFAULT_PATIENCE)
    /\ loss_levels = 1
    /\ InitProgram
    /\ IdleStep
    /\ IdleSplit

SpecStep == InitStep /\ [][NextStep]_vars


\* ------------------------------------------------------ claims on the steps
\* The number of retained subtypes of the running model
NumRetained == model.dataset.num_ddi_types

\* C1: in every training and validation step the true-label vector has one
\* entry per scored row, positive rows first; 0 labels only rows of the
\* negative graph; each positive row carries subtype index + 1, in 1..N.
C1_LabelVector ==
    step_out # <<>> =>
        LET r == step_out[1]
            npos == Len(batch.pos.edges)
            nneg == Len(batch.neg.edges)
        IN  /\ r.error = ""
            /\ Len(r.prediction) = npos + nneg
            /\ Len(r.real_label) = Len(r.prediction)
            /\ \A i \in 1..npos :
                  /\ r.prediction[i] = r.pos_score[i]
                  /\ r.real_label[i] = batch.pos.edges[i].etype + 1
                  /\ r.real_label[i] \in 1..NumRetained
            /\ \A i \in 1..nneg :
                  /\ r.prediction[npos + i] = r.neg_score[i]
                  /\ r.real_label[npos + i] = 0
            /\ \A i \in 1..Len(r.real_label) :
                  r.real_label[i] = 0 <=> i > npos

C1_Witness ==
    /\ step_out # <<>>
    /\ step_out[1].kind = "val"
    /\ step_out[1].real_label = <<3, 1, 0, 0>>

\* The number a sequence of decimal digits writes
RECURSIVE DecimalValue(_)
DecimalValue(ds) ==
    IF ds = <<>> THEN 0
    ELSE 10 * DecimalValue(SubSeq(ds, 1, Len(ds) - 1)) + ds[Len(ds)]

\* The raw subtypes of the artifact with at least min_sample_size edges
RetainedSet ==
    {i \in DOMAIN artifact.counts : artifact.counts[i] >= args.min_sample_size}

\* C8: the label space is fixed at construction: the predictor has
\* num_retained_subtypes + 1 output classes, the encoder's relations are one
\* DDI_<subtype> per retained subtype followed by DPI, PDI, PPI, and every
\* score vector has num_retained_subtypes + 1 entries whatever the batch is;
\* {50, 5, 20} edges with min_sample_size 10 give dimension 3.
C8_LabelSpaceFixed ==
    model.ok =>
        LET N == Cardinality(RetainedSet)
            names == model.sage.rel_names
        IN  /\ NumRetained = N
            /\ model.predictor.out_classes = N + 1
            /\ model.sage.out_feats = N + 1
            /\ Len(names) = N + 3
            /\ \A k \in 1..N :
                  /\ names[k][1] = "DDI_"
                  /\ Len(names[k]) >= 3
                  /\ DecimalValue(Tail(names[k])) = model.dataset.ddi_types[k]
                  /\ \A l \in 1..N : names[l] = names[k] => l = k
            /\ {model.dataset.ddi_types[k] : k \in 1..N}
                 = {RawLabel(i) : i \in RetainedSet}
            /\ SubSeq(names, N + 1, N + 3) = << <<"DPI">>, <<"PDI">>, <<"PPI">> >>
            /\ step_out # <<>> =>
                  /\ Len(step_out[1].prediction)
                       = Len(batch.pos.edges) + Len(batch.neg.edges)
                  /\ \A i \in 1..Len(step_out[1].prediction) :
                        DOMAIN step_out[1].prediction[i].logits = 0..N
            /\ (artifact.counts = <<50, 5, 20>> /\ args.min_sample_size = 10)
               => /\ model.dataset.ddi_types = <<RawLabel(1), RawLabel(3)>>
                  /\ model.predictor.out_classes = 3

C8_Witness ==
    /\ artifact.counts = <<50, 5, 20>>
    /\ args.min_sample_size = 10
    /\ model.ok
    /\ step_out # <<>>
    /\ Len(step_out[1].prediction) = 4
    /\ DOMAIN step_out[1].prediction[4].logits = 0..2

\* The Drug node of the full graph that node k of prediction graph g is
GlobalNode(g, k) == IF g.nid # <<>> THEN g.nid[k + 1] ELSE k

\* The score rows of g use, for each edge, the embeddings of its endpoints
ScoredWith(g, rows) ==
    /\ Len(rows) = Len(g.edges)
    /\ \A j \in 1..Len(rows) :
          /\ rows[j].src = Embedding(GlobalNode(g, g.edges[j].src))
          /\ rows[j].dst = Embedding(GlobalNode(g, g.edges[j].dst))

\* C10: forward scores each prediction graph with the Drug embeddings the
\* node-ID mapping selects (the k-th node with the embedding of the node the
\* mapping gives for k), or with the full embedding tensor unchanged if the
\* graph carries no mapping; every node an edge refers to has an embedding;
\* the score tensors come back in the order of the graphs, positive first.
C10_ForwardEmbeddings ==
    step_out # <<>> =>
        /\ step_out[1].error = ""
        /\ ScoredWith(batch.pos, step_out[1].pos_score)
        /\ ScoredWith(batch.neg, step_out[1].neg_score)
        /\ \A g \in {batch.pos, batch.neg} :
              \A j \in 1..Len(g.edges) :
                  /\ GlobalNode(g, g.edges[j].src) \in 0..(batch.graph.num_drugs - 1)
                  /\ GlobalNode(g, g.edges[j].dst) \in 0..(batch.graph.num_drugs - 1)

C10_Witness ==
    /\ step_out # <<>>
    /\ batch.pos.nid = <<2, 0>>
    /\ Len(batch.pos.edges) = 2
    /\ step_out[1].pos_score[1].src = Embedding(2)
    /\ step_out[1].neg_score[2].src = Embedding(0)


\* ================================================================ the split
\* The subsets of S with k elements
RECURSIVE KSubsets(_, _)
KSubsets(S, k) ==
    IF k = 0 THEN {{}}
    ELSE IF S = {} THEN {}
    ELSE LET x == CHOOSE y \in S : TRUE
         IN  {T \cup {x} : T \in KSubsets(S \ {x}, k - 1)}
             \cup KSubsets(S \ {x}, k)

\* The edge ids np.arange(num_ddi) and those of edge type k (0-based)
EdgeIds(ds) == 0..(ds.num_ddi - 1)
ClassIds(ds, k) == {e \in EdgeIds(ds) : EdgeType(ds, e) = k}

\* test_size=0.2: n_test = ceil(0.2 * n), n_train = n - n_test
NTest(n) == (n + 4) \div 5
NTrain(n) == n - NTest(n)

\* stratify=...: the split raises ValueError when a class has fewer than 2
\* members or either side would hold fewer ids than there are classes
SplitRaises(ds) ==
    \/ \E k \in DOMAIN ds.edge_counts : ds.edge_counts[k] < 2
    \/ NTrain(ds.num_ddi) < ds.num_ddi_types
    \/ NTest(ds.num_ddi) < ds.num_ddi_types

\* The per-class sizes of the training side: each class gets the floor of
\* its proportional share of n_train, and the ids still missing go one each
\* to the classes with the largest remainders, at random among equals.  The
\* test side gets the rest of each class.
TrainAllocations(ds) ==
    LET n  == ds.num_ddi
        nt == NTrain(n)
        K  == DOMAIN ds.edge_counts
        floorOf == [k \in K |-> (ds.edge_counts[k] * nt) \div n]
        rem  == [k \in K |-> (ds.edge_counts[k] * nt) % n]
        need == nt - SumSeq(floorOf)
    IN  {[k \in K |-> floorOf[k] + (IF k \in A THEN 1 ELSE 0)] :
            A \in {B \in KSubsets(K, need) :
                      \A a \in B, b \in K \ B : rem[a] >= rem[b]}}

\* The test sides that take, of every class k..K, the ids the allocation
\* leaves to the test side, chosen at random within the class
RECURSIVE StratifiedTests(_, _, _)
StratifiedTests(ds, alloc, k) ==
    IF k > Len(ds.edge_counts) THEN {{}}
    ELSE {a \cup b : a \in KSubsets(ClassIds(ds, k - 1),
                                    ds.edge_counts[k] - alloc[k]),
                     b \in StratifiedTests(ds, alloc, k + 1)}

\* Mutant: the split is not stratified (any test side of n_test ids)
TrainTestSplit_Unstratified(ds) ==
    IF SplitRaises(ds) THEN {}
    ELSE {[train_eid |-> EdgeIds(ds) \ t, test_eid |-> t] :
            t \in KSubsets(EdgeIds(ds), NTest(ds.num_ddi))}

\* train_test_split(np.arange(num_ddi), test_size=0.2, stratify=edge types):
\* every (train_eid, test_eid) the call can return; none when it raises
TrainTestSplit(ds) ==
    IF SplitRaises(ds) THEN {}
    ELSE {[train_eid |-> EdgeIds(ds) \ t, test_eid |-> t] :
            t \in UNION {StratifiedTests(ds, alloc, 1) :
                           alloc \in TrainAllocations(ds)}}

\* Model.setup(stage) on the replica of rank r: the split is drawn anew
Setup(r) ==
    /\ phase = "train"
    /\ r \in world
    /\ split[r] = <<>>
    /\ IF SplitRaises(model.dataset)
       THEN /\ phase' = "crashed"
            /\ error' = "ValueError"
            /\ UNCHANGED split
       ELSE /\ \E s \in TrainTestSplit(model.dataset) :
                 split' = [split EXCEPT ![r] = <<s>>]
            /\ UNCHANGED <<phase, error>>
    /\ UNCHANGED <<artifact, args, model, wait_count, best_score, should_stop,
                   best_k_models, disk, current_epoch, history, loss_levels,
                   resumed_from, stepVars, world, loaders>>

\* train_dataloader(): DDIDataLoader(dataset, self.train_eid, batch_size)
TrainDataloader(r) ==
    /\ phase = "train"
    /\ r \in world
    /\ split[r] # <<>>
    /\ loaders[r].train = <<>>
    /\ loaders' = [loaders EXCEPT ![r].train = <<split[r][1].train_eid>>]
    /\ UNCHANGED <<artifact, progVars, stepVars, world, split>>

\* val_dataloader(): DDIDataLoader(dataset, self.test_eid, batch_size)
ValDataloader(r) ==
    /\ phase = "train"
    /\ r \in world
    /\ split[r] # <<>>
    /\ loaders[r].val = <<>>
    /\ loaders' = [loaders EXCEPT ![r].val = <<split[r][1].test_eid>>]
    /\ UNCHANGED <<artifact, progVars, stepVars, world, split>>

NextSplit ==
    \/ New
    \/ \E r \in world : Setup(r)
    \/ \E r \in world : TrainDataloader(r)
    \/ \E r \in world : ValDataloader(r)

SplitMinSampleSize == 2

InitReplicas(ranks) ==
    /\ world = ranks
    /\ split = [r \in ranks |-> <<>>]
    /\ loaders = [r \in ranks |-> [train |-> <<>>, val |-> <<>>]]

\* One process, every small artifact
InitSplit ==
    /\ artifact \in [path : {DEFAULT_PKL_PATH},
                      counts : [1..NumRawSubtypes -> 1..MaxCount]]
    /\ args = NewArgs(DEFAULT_PKL_PATH, DEFAULT_HIDDEN_SIZE,
                      DEFAULT_LEARNING_RATE, DEFAULT_BATCH_SIZE,
                      SplitMinSampleSize, DEFAULT_PATIENCE)
    /\ loss_levels = 1
    /\ InitProgram
    /\ IdleStep
    /\ InitReplicas({0})

SpecSplit == InitSplit /\ [][NextSplit]_vars

\* Two data-parallel replicas of one run (strategy ddp), one artifact
InitDdp ==
    /\ artifact = [path |-> DEFAULT_PKL_PATH, counts |-> <<MaxCount, MaxCount>>]
    /\ args = NewArgs(DEFAULT_PKL_PATH, DEFAULT_HIDDEN_SIZE,
                      DEFAULT_LEARNING_RATE, DEFAULT_BATCH_SIZE,
                      SplitMinSampleSize, DEFAULT_PATIENCE)
    /\ loss_levels = 1
    /\ InitProgram
    /\ IdleStep
    /\ InitReplicas({0, 1})

SpecDdp == InitDdp /\ [][NextSplit]_vars

\* ------------------------------------------------------ claims on the split
\* C6: the split setup produces is a partition of 0..num_ddi-1: train_eid and
\* test_eid are disjoint and cover it, the test set holds 20% of the ids
\* (rounded up), and each subtype's share of the test set is its share of the
\* universe within rounding (less than one edge off).
C6_SplitIsStratifiedPartition ==
    \A r \in world :
        split[r] # <<>> =>
            LET s  == split[r][1]
                ds == model.dataset
                n  == ds.num_ddi
                nt == Cardinality(s.test_eid)
            IN  /\ s.train_eid \cap s.test_eid = {}
                /\ s.train_eid \cup s.test_eid = 0..(n - 1)
                /\ 5 * nt >= n /\ 5 * (nt - 1) < n
                /\ \A k \in 0..(ds.num_ddi_types - 1) :
                      LET ck == Cardinality(ClassIds(ds, k))
                          tk == Cardinality(s.test_eid \cap ClassIds(ds, k))
                      IN  /\ ck = ds.edge_counts[k + 1]
                          /\ tk * n - ck * nt < n
                          /\ ck * nt - tk * n < n

C6_Witness ==
    /\ split[0] # <<>>
    /\ model.dataset.edge_counts = <<4, 3, 4>>
    /\ Cardinality(split[0][1].test_eid) = 3
    /\ Cardinality(split[0][1].train_eid) = 8
    /\ loaders[0].val # <<>>

\* C7: the split is created once per run and never changes: all dataloaders
\* of the run, on every replica, are built over the same train_eid and
\* test_eid, so no edge id used for validation is used for training.
C7_OneSplitPerRun ==
    \A r1 \in world, r2 \in world :
        /\ (split[r1] # <<>> /\ split[r2] # <<>>) => split[r1] = split[r2]
        /\ (loaders[r1].val # <<>> /\ loaders[r2].train # <<>>) =>
              loaders[r1].val[1] \cap loaders[r2].train[1] = {}

=============================================================================
